---------------------------- MODULE Spec2Model ----------------------------
(***************************************************************************)
(* Model of the Feishu approval bridge: ApprovalHandler (handlers/         *)
(* approval.py), AttachmentService (services/attachment.py) and the calls  *)
(* it makes on FeishuClient and EmailSender.                               *)
(*                                                                         *)
(* JSON values are tagged records: Null, Str(s), Num(n), List(items),      *)
(* Dict(d).  A dict's payload d is a record holding exactly the keys that  *)
(* are present, so dict.get(key) and dict.get(key, default) can tell a     *)
(* missing key from an empty value.  Python strings are TLA+ strings; the  *)
(* string operations the code uses (json.loads, startswith, split/strip,   *)
(* "in") are given by their results on the strings of the model.           *)
(* TLA+ strings are ASCII: the Chinese labels of the source are written    *)
(* in pinyin, the original is in the comment next to each.                 *)
(***************************************************************************)
EXTENDS Integers, Sequences, FiniteSets, TLC

VARIABLES
    pc,               \* position of the event's processing
    event,            \* the webhook event handed to handle_event
    instance_code,    \* approval.py:65 local of handle_event
    instance,         \* approval.py:87 the record get_approval_instance returned
    form_json,        \* approval.py:95 the form text of the record
    target_email,     \* approval.py:98
    approval_title,   \* approval.py:107
    approval_amount,  \* approval.py:108
    attachments,      \* approval.py:142 list[AttachmentInfo]
    token_to_url,     \* attachment.py:175
    idx,              \* attachment.py:180 position of the download loop
    downloaded,       \* attachment.py:179
    calls,            \* the collaborator calls made so far, in order
    responses,        \* how each call that has ended ended: "ok" or "error"
    sent,             \* the arguments of send_with_attachments, once called
    access_token,     \* feishu_client.py:12 FeishuClient._access_token
    token_expires_at, \* feishu_client.py:13 FeishuClient._token_expires_at
    now,              \* time.time(), in seconds
    req,              \* the calls of _get_tenant_access_token: position, result
    refreshes,        \* what the successful token responses gave, so far
    posts             \* number of token requests posted so far

flowvars == <<pc, event, instance_code, instance, form_json, target_email,
              approval_title, approval_amount, attachments, token_to_url, idx,
              downloaded, calls, responses, sent>>

tokenvars == <<access_token, token_expires_at, now, req, refreshes, posts>>

vars == <<flowvars, tokenvars>>

---------------------------------------------------------------------------
(* JSON values and the Python operations on them *)

Null == [k |-> "null"]
Str(s) == [k |-> "str", s |-> s]
Num(n) == [k |-> "num", n |-> n]
Bool(b) == [k |-> "bool", b |-> b]
List(items) == [k |-> "list", items |-> items]
Dict(d) == [k |-> "dict", d |-> d]
EmptyDict == Dict(<<>>)

\* dict.get(key): None when the key is missing
Get(d, key) == IF key \in DOMAIN d THEN d[key] ELSE Null

\* dict.get(key, default): the default only when the key is missing
GetDefault(d, key, default) == IF key \in DOMAIN d THEN d[key] ELSE default

\* Python truthiness of a value
Truthy(v) ==
    CASE v.k = "null" -> FALSE
      [] v.k = "str" -> v.s # ""
      [] v.k = "num" -> v.n # 0
      [] v.k = "bool" -> v.b
      [] v.k = "list" -> v.items # <<>>
      [] v.k = "dict" -> DOMAIN v.d # {}

\* a or b
PyOr(a, b) == IF Truthy(a) THEN a ELSE b

\* The Python str held by a value (the model's documents hold strings at
\* the keys that are read as strings).
NonStr == "<non-str>"
Unwrap(v) == IF v.k = "str" THEN v.s ELSE NonStr

RECURSIVE UnwrapAll(_)
UnwrapAll(items) ==
    IF items = <<>> THEN <<>>
    ELSE <<Unwrap(Head(items))>> \o UnwrapAll(Tail(items))

---------------------------------------------------------------------------
(* The strings of the model and the string operations of the code *)

UrlA == "http://x/a.pdf"
UrlB == "http://x/b.pdf"
UrlT == "http://tmp/t"
JunkText == "junk"
JsonUrlListText == "[\"http://x/a.pdf\",\"http://x/b.pdf\"]"
JsonTokenDictText == "{\"file_token\":\"t1\"}"
JsonUrlStrText == "\"http://x/a.pdf\""
JsonNumText == "12"
SumItemsText ==
    "[{\"value\":\"50\",\"currency\":\"SEK\"},{\"value\":\"10\",\"currency\":\"EUR\"}]"
SumItemsOneText == "[{\"value\":\"7\",\"currency\":\"USD\"}]"
BadSumItemsText == "50 SEK"

\* str.startswith("http")
StartsWithHttp(s) == s \in {UrlA, UrlB, UrlT}

\* json.loads(s): ok is FALSE when it raises JSONDecodeError
JsonLoads(s) ==
    CASE s = JsonUrlListText -> [ok |-> TRUE, v |-> List(<<Str(UrlA), Str(UrlB)>>)]
      [] s = JsonTokenDictText -> [ok |-> TRUE, v |-> Dict([file_token |-> Str("t1")])]
      [] s = JsonUrlStrText -> [ok |-> TRUE, v |-> Str(UrlA)]
      [] s = JsonNumText -> [ok |-> TRUE, v |-> Num(12)]
      [] s = SumItemsText ->
            [ok |-> TRUE,
             v |-> List(<<Dict([value |-> Str("50"), currency |-> Str("SEK")]),
                          Dict([value |-> Str("10"), currency |-> Str("EUR")])>>)]
      [] s = SumItemsOneText ->
            [ok |-> TRUE,
             v |-> List(<<Dict([value |-> Str("7"), currency |-> Str("USD")])>>)]
      [] OTHER -> [ok |-> FALSE, v |-> Null]

\* [name.strip() for name in ext.split(",")]
SplitStrip(s) ==
    CASE s = "n1.pdf" -> <<"n1.pdf">>
      [] s = "n1.pdf, n2.pdf" -> <<"n1.pdf", "n2.pdf">>
      [] s = "n1.pdf," -> <<"n1.pdf", "">>
      [] OTHER -> <<s>>

\* f"attachment_{i+1}", i the zero-based position in the control
FallbackName(i) == "attachment_" \o ToString(i + 1)

---------------------------------------------------------------------------
(* services/attachment.py *)

NoContent == "None"

\* AttachmentInfo(file_token, name, mime_type, content=None, download_url)
AttachmentInfo(file_token, name, mime_type, download_url) ==
    [file_token |-> file_token, name |-> name, mime_type |-> mime_type,
     content |-> NoContent, download_url |-> download_url]

\* attachment.py:80-91 the filenames the control's ext supplies
ExtFilenames(ext) ==
    IF ext.k = "str" /\ ext.s # "" THEN SplitStrip(ext.s)
    ELSE IF ext.k = "dict" THEN
        LET name == PyOr(Get(ext.d, "name"), Get(ext.d, "file_name"))
        IN  IF Truthy(name) THEN <<Unwrap(name)>> ELSE <<>>
    ELSE IF ext.k = "list" THEN UnwrapAll(ext.items)
    ELSE <<>>

\* attachment.py:95-123 one iteration of the loop over files; i is zero-based
FileEntry(file_info, i, ext_filenames) ==
    IF file_info.k = "str" /\ StartsWithHttp(file_info.s) THEN
        <<AttachmentInfo("",
                         IF i < Len(ext_filenames) THEN ext_filenames[i + 1]
                         ELSE FallbackName(i),
                         "", file_info.s)>>
    ELSE IF file_info.k # "dict" THEN <<>>
    ELSE
        LET d == file_info.d
            file_token == PyOr(PyOr(Get(d, "file_token"), Get(d, "token")), Str(""))
            file_name == PyOr(Get(d, "name"),
                              GetDefault(d, "file_name", Str(FallbackName(i))))
            download_url == PyOr(PyOr(Get(d, "url"), Get(d, "download_url")), Str(""))
        IN  <<AttachmentInfo(Unwrap(file_token), Unwrap(file_name),
                             Unwrap(GetDefault(d, "mime_type", Str(""))),
                             Unwrap(download_url))>>

\* attachment.py:94-95 the loop over enumerate(files), from position i on
RECURSIVE ResolveFiles(_, _, _)
ResolveFiles(files, i, ext_filenames) ==
    IF i >= Len(files) THEN <<>>
    ELSE FileEntry(files[i + 1], i, ext_filenames)
            \o ResolveFiles(files, i + 1, ext_filenames)

\* attachment.py:60-123 what one attachment control appends
ResolveAttachmentControl(control) ==
    LET value == Get(control, "value")
        ext_filenames == ExtFilenames(Get(control, "ext"))
        Files(v) == IF v.k = "list" THEN v.items ELSE <<v>>
    IN  IF ~Truthy(value) THEN <<>>
        ELSE IF value.k = "str" THEN
            LET parsed == JsonLoads(value.s)
            IN  IF ~parsed.ok THEN
                    IF StartsWithHttp(value.s)
                    THEN <<AttachmentInfo("", "attachment", "", value.s)>>
                    ELSE <<>>
                ELSE ResolveFiles(Files(parsed.v), 0, ext_filenames)
        ELSE ResolveFiles(Files(value), 0, ext_filenames)

\* attachment.py:38-62 _extract_attachments_recursive, returning the list
\* it appends to
RECURSIVE extract_attachments_recursive(_, _)
RECURSIVE ExtractRows(_, _)
RECURSIVE ExtractControl(_, _)

\* ExtractRows stopping after the first row of the fieldList
ExtractRowsFirstRowOnly(rows, found) ==
    IF rows = <<>> THEN found
    ELSE IF Head(rows).k = "list"
         THEN extract_attachments_recursive(Head(rows).items, found)
         ELSE found

\* attachment.py:50-53 the rows of a fieldList
ExtractRows(rows, found) ==
    IF rows = <<>> THEN found
    ELSE LET row == Head(rows)
         IN  ExtractRows(Tail(rows),
                         IF row.k = "list"
                         THEN extract_attachments_recursive(row.items, found)
                         ELSE found)

\* attachment.py:41-123 the body of the loop over controls
ExtractControl(control, found) ==
    IF control.k # "dict" THEN found
    ELSE
        LET control_type == GetDefault(control.d, "type", Str(""))
        IN  IF control_type = Str("fieldList") THEN
                LET value == GetDefault(control.d, "value", List(<<>>))
                IN  IF value.k = "list" THEN ExtractRows(value.items, found)
                    ELSE found
            ELSE IF control_type \notin {Str("attachment"), Str("attachmentV2")}
                THEN found
            ELSE found \o ResolveAttachmentControl(control.d)

extract_attachments_recursive(controls, found) ==
    IF controls = <<>> THEN found
    ELSE extract_attachments_recursive(Tail(controls),
                                       ExtractControl(Head(controls), found))

\* A JSON text is held as what json.loads makes of it: BadJson is a text
\* json.loads rejects, JsonText(v) the text that encodes v.
BadJson == [ok |-> FALSE, v |-> Null]
JsonText(v) == [ok |-> TRUE, v |-> v]

\* attachment.py:21-36
extract_attachments_from_form(text) ==
    IF ~text.ok THEN <<>>
    ELSE extract_attachments_recursive(text.v.items, <<>>)

---------------------------------------------------------------------------
(* handlers/approval.py: the category router and the form summary *)

\* The approval names of APPROVAL_EMAIL_ATTRS (approval.py:9-14), in pinyin:
\* "费用报销test", "付款test", "费用报销", "付款-瑞典对公-SHIC".
NameExpenseTest == "feiyongbaoxiao-test"
NamePaymentTest == "fukuan-test"
NameExpense == "feiyongbaoxiao"
NamePaymentShic == "fukuan-ruidianduigong-SHIC"
NameUnmapped == "qingjia"

\* approval.py:9-14 approval_name -> settings attribute name
APPROVAL_EMAIL_ATTRS ==
    [n \in {NameExpenseTest, NamePaymentTest, NameExpense, NamePaymentShic} |->
        CASE n = NameExpenseTest -> "email_feiyongbaoxiao_test"
          [] n = NamePaymentTest -> "email_fukuan_test"
          [] n = NameExpense -> "email_feiyongbaoxiao"
          [] n = NamePaymentShic -> "email_fukuan_ruidianduigong_shic"]

\* config.py:21-26 the configured addresses; an unset one is "" (the default)
settings ==
    [email_feiyongbaoxiao_test |-> "expense@corp.example",
     email_fukuan_test |-> "",
     email_feiyongbaoxiao |-> "finance@corp.example",
     email_fukuan_ruidianduigong_shic |-> ""]

NoEmail == "None"

\* approval.py:31-37
get_target_email(approval_name) ==
    IF approval_name \notin DOMAIN APPROVAL_EMAIL_ATTRS THEN NoEmail
    ELSE LET email == settings[APPROVAL_EMAIL_ATTRS[approval_name]]
         IN  IF email # "" THEN email ELSE NoEmail

\* The labels the summary looks for: "名称" and "金额" (approval.py:112, 116)
TitleLabel == "mingcheng"
AmountLabel == "jine"
DefaultCurrency == "SEK"

\* repr(s) of a str: in single quotes, with the control characters and the
\* backslash escaped; in double quotes when s holds a single quote and no
\* double one.  Given by its results on the strings of the model that need
\* any of this.
ReprStr(s) ==
    CASE s = "it's" -> "\"it's\""
      [] s = "x\ny" -> "'x\\ny'"
      [] OTHER -> "'" \o s \o "'"

\* json.loads keeps the keys of an object in the order of the text.  A
\* Dict(d) of the model stands for the object whose keys are written in the
\* order of this list.
KeyOrder ==
    <<"a", "b", "c", "name", "type", "value", "ext", "currency", "sumItems",
      "file_token", "token", "file_name", "url", "download_url", "mime_type",
      "approval_name", "form", "serial_number", "header", "event_type",
      "event", "status", "instance_status", "instance_code", "approval_code",
      "object">>
KeysOf(d) ==
    IF Cardinality(DOMAIN d) = 1 THEN <<CHOOSE key \in DOMAIN d : TRUE>>
    ELSE SelectSeq(KeyOrder, LAMBDA key : key \in DOMAIN d)

\* repr(v) of a value: str([...]) and str({...}) write their members with repr
RECURSIVE Repr(_)
RECURSIVE ReprItems(_)
ReprItems(items) ==
    IF Len(items) = 1 THEN Repr(items[1])
    ELSE Repr(Head(items)) \o ", " \o ReprItems(Tail(items))
RECURSIVE ReprPairs(_, _)
ReprPairs(keys, d) ==
    LET pair == ReprStr(Head(keys)) \o ": " \o Repr(d[Head(keys)])
    IN  IF Len(keys) = 1 THEN pair
        ELSE pair \o ", " \o ReprPairs(Tail(keys), d)
Repr(v) ==
    CASE v.k = "str" -> ReprStr(v.s)
      [] v.k = "num" -> ToString(v.n)
      [] v.k = "bool" -> IF v.b THEN "True" ELSE "False"
      [] v.k = "null" -> "None"
      [] v.k = "list" ->
            IF v.items = <<>> THEN "[]" ELSE "[" \o ReprItems(v.items) \o "]"
      [] v.k = "dict" /\ DOMAIN v.d = {} -> "{}"
      [] v.k = "dict" /\ Len(KeysOf(v.d)) = Cardinality(DOMAIN v.d) ->
            "{" \o ReprPairs(KeysOf(v.d), v.d) \o "}"

\* f"{v}" of a value
Fmt(v) == IF v.k = "str" THEN v.s ELSE Repr(v)

\* approval.py:132-133 ", ".join(f"{value} {currency}" for s in sums)
RECURSIVE JoinSums(_)
JoinSums(sums) ==
    IF sums = <<>> THEN ""
    ELSE LET s == Head(sums).d
             part == Fmt(GetDefault(s, "value", Str(""))) \o " "
                        \o Fmt(GetDefault(s, "currency", Str("")))
         IN  IF Len(sums) = 1 THEN part
             ELSE part \o ", " \o JoinSums(Tail(sums))

\* approval.py:126-136 the loop over the items of a fieldList's ext, which
\* stops at the first item of type amount
RECURSIVE SummaryAmount(_, _)
SummaryAmount(items, amount) ==
    IF items = <<>> THEN amount
    ELSE LET item == Head(items).d
         IN  IF Get(item, "type") = Str("amount") THEN
                 LET sum_items == GetDefault(item, "sumItems", Str(""))
                 IN  IF ~Truthy(sum_items) THEN amount
                     ELSE LET sums == JsonLoads(sum_items.s)
                          IN  IF sums.ok THEN Str(JoinSums(sums.v.items))
                              ELSE GetDefault(item, "value", Str(""))
             ELSE SummaryAmount(Tail(items), amount)

\* FieldStep keeping the first title it finds
FieldStepKeepsFirstTitle(field, st) ==
    LET f == field.d IN
    IF Get(f, "name") = Str(TitleLabel) /\ Get(f, "type") = Str("input") THEN
        IF Truthy(st.title) THEN st
        ELSE [st EXCEPT !.title = GetDefault(f, "value", Str(""))]
    ELSE IF Get(f, "name") = Str(AmountLabel) /\ Get(f, "type") = Str("amount") THEN
        LET amount_value == GetDefault(f, "value", Str(""))
            ext == GetDefault(f, "ext", EmptyDict)
            currency == IF ext.k = "dict"
                        THEN GetDefault(ext.d, "currency", Str(DefaultCurrency))
                        ELSE Str(DefaultCurrency)
        IN  [st EXCEPT !.amount = Str(Fmt(amount_value) \o " " \o Fmt(currency))]
    ELSE IF Get(f, "type") = Str("fieldList") /\ ~Truthy(st.amount) THEN
        LET ext == GetDefault(f, "ext", List(<<>>))
        IN  IF ext.k = "list"
            THEN [st EXCEPT !.amount = SummaryAmount(ext.items, st.amount)]
            ELSE st
    ELSE st

\* FieldStep keeping an amount already found
FieldStepKeepsFirstAmount(field, st) ==
    LET f == field.d IN
    IF Get(f, "name") = Str(TitleLabel) /\ Get(f, "type") = Str("input") THEN
        [st EXCEPT !.title = GetDefault(f, "value", Str(""))]
    ELSE IF Get(f, "name") = Str(AmountLabel) /\ Get(f, "type") = Str("amount") THEN
        LET amount_value == GetDefault(f, "value", Str(""))
            ext == GetDefault(f, "ext", EmptyDict)
            currency == IF ext.k = "dict"
                        THEN GetDefault(ext.d, "currency", Str(DefaultCurrency))
                        ELSE Str(DefaultCurrency)
        IN  IF Truthy(st.amount) THEN st
            ELSE [st EXCEPT !.amount = Str(Fmt(amount_value) \o " " \o Fmt(currency))]
    ELSE IF Get(f, "type") = Str("fieldList") /\ ~Truthy(st.amount) THEN
        LET ext == GetDefault(f, "ext", List(<<>>))
        IN  IF ext.k = "list"
            THEN [st EXCEPT !.amount = SummaryAmount(ext.items, st.amount)]
            ELSE st
    ELSE st

\* approval.py:110-136 one iteration of the loop over form_data;
\* st is [title, amount], the values the two locals hold
FieldStep(field, st) ==
    LET f == field.d IN
    IF Get(f, "name") = Str(TitleLabel) /\ Get(f, "type") = Str("input") THEN
        [st EXCEPT !.title = GetDefault(f, "value", Str(""))]
    ELSE IF Get(f, "name") = Str(AmountLabel) /\ Get(f, "type") = Str("amount") THEN
        LET amount_value == GetDefault(f, "value", Str(""))
            ext == GetDefault(f, "ext", EmptyDict)
            currency == IF ext.k = "dict"
                        THEN GetDefault(ext.d, "currency", Str(DefaultCurrency))
                        ELSE Str(DefaultCurrency)
        IN  [st EXCEPT !.amount = Str(Fmt(amount_value) \o " " \o Fmt(currency))]
    ELSE IF Get(f, "type") = Str("fieldList") /\ ~Truthy(st.amount) THEN
        LET ext == GetDefault(f, "ext", List(<<>>))
        IN  IF ext.k = "list"
            THEN [st EXCEPT !.amount = SummaryAmount(ext.items, st.amount)]
            ELSE st
    ELSE st

\* approval.py:107-136 the loop over form_data, from the state st
RECURSIVE SummaryLoop(_, _)
SummaryLoop(form_data, st) ==
    IF form_data = <<>> THEN st
    ELSE SummaryLoop(Tail(form_data), FieldStep(Head(form_data), st))

\* approval.py:106-139 title and amount of a form, with the fallback for
\* a title that is not truthy (approval.py:138 "if not approval_title")
ExtractSummary(form_data, inst, code) ==
    LET st == SummaryLoop(form_data, [title |-> Str(""), amount |-> Str("")])
    IN  [title |-> IF Truthy(st.title) THEN st.title
                   ELSE GetDefault(inst, "serial_number", Str(code)),
         amount |-> st.amount]

---------------------------------------------------------------------------
(* handlers/approval.py: handle_event and _process_approval, one action    *)
(* per stretch of code between two awaits on a collaborator                *)

\* "approval_instance" in event_type (approval.py:47)
ContainsMarker(s) == s \in {"approval_instance", "approval_instance_v2"}

\* approval.py:45-47 the event is left alone because of its type
SkippedByType(ev) ==
    LET header == GetDefault(ev, "header", EmptyDict)
        event_type == GetDefault(header.d, "event_type", Str(""))
    IN  Truthy(event_type) /\ ~ContainsMarker(Unwrap(event_type))

\* approval.py:52-59
EventStatus(ev) ==
    LET event_data == GetDefault(ev, "event", EmptyDict).d
    IN  PyOr(PyOr(Get(event_data, "status"), Get(event_data, "instance_status")),
             Get(GetDefault(event_data, "object", EmptyDict).d, "status"))

\* approval.py:65-69
EventInstanceCode(ev) ==
    LET event_data == GetDefault(ev, "event", EmptyDict).d
    IN  PyOr(PyOr(Get(event_data, "instance_code"), Get(event_data, "approval_code")),
             Get(GetDefault(event_data, "object", EmptyDict).d, "instance_code"))

---------------------------------------------------------------------------
(* FeishuClient._get_tenant_access_token: the token cache one client holds *)
(* for all the requests that go through it.  The coroutines run on one     *)
(* event loop: a step runs from one await to the next, and the steps of    *)
(* different requests interleave in any order.                             *)

NumRequests == 3     \* concurrent calls of _get_tenant_access_token
MaxTicks == 3        \* how often the clock moves on

\* feishu_client.py:36 the cached token expires five minutes early
ExpireEarly == 300

\* feishu_client.py:12 Optional[str]: None
NoToken == "None"

\* the callers of _get_tenant_access_token
Requests == 1..NumRequests

\* data["tenant_access_token"] and data["expire"] of the token responses
Tokens == {"t1", "t2"}
Expires == {300, 600, 900}

NotStarted == [pc |-> "idle", token |-> NoToken]

\* feishu_client.py:9-13 __init__: nothing cached
ClientConstructed ==
    /\ access_token = NoToken
    /\ token_expires_at = 0
    /\ now = 1
    /\ req = [r \in Requests |-> NotStarted]
    /\ refreshes = {}
    /\ posts = 0

\* feishu_client.py:17 the cache can serve the request
CacheIsFresh == access_token # NoToken /\ now < token_expires_at

\* feishu_client.py:17-27 what call r of _get_tenant_access_token does to
\* the client up to its first await: it returns the cached token, or posts
\* a token request and awaits the answer
GetTokenOrPost(r) ==
    /\ IF CacheIsFresh THEN
            /\ req' = [req EXCEPT ![r] = [pc |-> "returned",
                                          token |-> access_token]]
            /\ posts' = posts
       ELSE /\ req' = [req EXCEPT ![r].pc = "awaiting_post"]
            /\ posts' = posts + 1
    /\ UNCHANGED <<access_token, token_expires_at, now, refreshes>>

\* feishu_client.py:15-27 request r enters _get_tenant_access_token
EnterGetToken(r) ==
    /\ req[r].pc = "idle"
    /\ GetTokenOrPost(r)
    /\ UNCHANGED flowvars

\* feishu_client.py:46 the calls of _get_tenant_access_token an event makes
\* through _request come one after the other: the next one to be made, and
\* whether one is waiting for the answer to its token request
NextCall == CHOOSE r \in Requests :
                /\ req[r].pc = "idle"
                /\ \A q \in Requests : q < r => req[q].pc # "idle"
TokenPending == \E r \in Requests : req[r].pc = "awaiting_post"

\* feishu_client.py:28, 31-36, 46 what the failure of a call made through
\* _request does to the client: a token request that was waiting for its
\* answer has failed and its call has raised, with the token of the answer
\* stored when it was line 36 that raised; a failure of the request itself
\* leaves the client alone
RequestFailed ==
    /\ req' = [r \in Requests |->
                  IF req[r].pc = "awaiting_post"
                  THEN [req[r] EXCEPT !.pc = "raised"] ELSE req[r]]
    /\ \/ access_token' = access_token
       \/ TokenPending /\ \E token \in Tokens : access_token' = token
    /\ UNCHANGED <<token_expires_at, now, refreshes, posts>>

\* feishu_client.py:28-37 the answer to r's token request has code 0 and
\* holds a token and a number of seconds: token and expiry are stored (no
\* await between the two) and the stored token is returned
RefreshSucceeded(r, token, expire) ==
    /\ req[r].pc = "awaiting_post"
    /\ access_token' = token
    /\ token_expires_at' = now + expire - ExpireEarly
    /\ refreshes' = refreshes \cup
            {[token |-> token, expires_at |-> now + expire - ExpireEarly]}
    /\ req' = [req EXCEPT ![r] = [pc |-> "returned", token |-> access_token']]
    /\ UNCHANGED <<now, posts>>
    /\ UNCHANGED flowvars

\* feishu_client.py:21-28 the post or raise_for_status raised
RefreshHttpError(r) ==
    /\ req[r].pc = "awaiting_post"
    /\ req' = [req EXCEPT ![r].pc = "raised"]
    /\ UNCHANGED <<access_token, token_expires_at, now, refreshes, posts>>
    /\ UNCHANGED flowvars

\* feishu_client.py:31-32 the answer's code is not 0
RefreshRejected(r) ==
    /\ req[r].pc = "awaiting_post"
    /\ req' = [req EXCEPT ![r].pc = "raised"]
    /\ UNCHANGED <<access_token, token_expires_at, now, refreshes, posts>>
    /\ UNCHANGED flowvars

\* feishu_client.py:34-36 the answer to r's token request has code 0 and a
\* token, but no "expire" that can be added to the time (the key missing,
\* null, not a number): line 34 has stored the token when line 36 raises,
\* and the expiry stays what it was
RefreshBadExpire(r, token) ==
    /\ req[r].pc = "awaiting_post"
    /\ access_token' = token
    /\ req' = [req EXCEPT ![r].pc = "raised"]
    /\ UNCHANGED <<token_expires_at, now, refreshes, posts>>
    /\ UNCHANGED flowvars

\* time passes between two steps
Tick ==
    /\ now < 1 + MaxTicks * ExpireEarly
    /\ now' = now + ExpireEarly
    /\ UNCHANGED <<access_token, token_expires_at, req, refreshes, posts>>
    /\ UNCHANGED flowvars

---------------------------------------------------------------------------
(* The event flow *)

\* approval.py:39-77 handle_event up to the first await: the token request
\* get_approval_instance posts through _request (feishu_client.py:46), or,
\* the cached token fresh, its own request
HandleEvent ==
    /\ pc = "start"
    /\ IF SkippedByType(event.d) THEN
            /\ pc' = "skipped"
            /\ UNCHANGED <<instance_code, calls>>
            /\ UNCHANGED tokenvars
       ELSE IF EventStatus(event.d) # Str("APPROVED") THEN
            /\ pc' = "skipped"
            /\ UNCHANGED <<instance_code, calls>>
            /\ UNCHANGED tokenvars
       ELSE IF ~Truthy(EventInstanceCode(event.d)) THEN
            /\ pc' = "skipped"
            /\ UNCHANGED <<instance_code, calls>>
            /\ UNCHANGED tokenvars
       ELSE /\ instance_code' = Unwrap(EventInstanceCode(event.d))
            /\ calls' = Append(calls, "getApprovalInstance")
            /\ pc' = "await_instance"
            /\ GetTokenOrPost(NextCall)
    /\ UNCHANGED <<event, instance, form_json, target_email, approval_title,
                   approval_amount, attachments, token_to_url, idx, downloaded,
                   sent>>
    /\ UNCHANGED responses

\* attachment.py:174 the tokens whose URL has to be asked for
RECURSIVE FileTokens(_)
FileTokens(atts) ==
    IF atts = <<>> THEN <<>>
    ELSE LET a == Head(atts)
         IN  (IF a.file_token # "" /\ a.download_url = ""
              THEN <<a.file_token>> ELSE <<>>) \o FileTokens(Tail(atts))

\* attachment.py:182 attachment.download_url or token_to_url.get(file_token)
UrlOf(a, t2u) ==
    IF a.download_url # "" THEN a.download_url
    ELSE IF a.file_token \in DOMAIN t2u THEN t2u[a.file_token]
    ELSE ""

\* attachment.py:180-185 the next position from i on that has a URL, or
\* Len(atts) + 1 when the loop runs out
RECURSIVE NextWithUrl(_, _, _)
NextWithUrl(atts, i, t2u) ==
    IF i > Len(atts) THEN i
    ELSE IF UrlOf(atts[i], t2u) # "" THEN i
    ELSE NextWithUrl(atts, i + 1, t2u)

\* approval.py:156-163 subject and body of the mail; the body's labels
\* ("审批已通过", "审批类型", "审批标题", "审批金额", "附件数量") in pinyin
Subject(name, title) == "[" \o name \o "]-" \o Fmt(title)
Body(name, title, amount, n) ==
    "shenpi yi tongguo\n\n" \o "shenpi leixing: " \o name \o "\n"
        \o "shenpi biaoti: " \o Fmt(title) \o "\n"
        \o "shenpi jine: " \o Fmt(amount) \o "\n"
        \o "fujian shuliang: " \o ToString(n) \o "\n"

NotSent == [to_email |-> NoEmail, subject |-> "", body |-> "", attachments |-> <<>>]

\* ContinueDownloads without the check of approval.py:151-153
ContinueDownloadsSendsAnyway(atts, i, dl, t2u, name, title, amount, email, cs) ==
    LET j == NextWithUrl(atts, i, t2u)
    IN  /\ idx' = j
        /\ IF j <= Len(atts) THEN
                /\ pc' = "await_download"
                /\ calls' = Append(cs, "downloadFile")
                /\ sent' = sent
           ELSE /\ pc' = "await_send"
                /\ calls' = Append(cs, "sendNotification")
                /\ sent' = [to_email |-> email,
                            subject |-> Subject(name, title),
                            body |-> Body(name, title, amount, Len(dl)),
                            attachments |-> dl]

\* attachment.py:180-193 and approval.py:150-171: the download loop goes on
\* from position i with the list dl downloaded so far, up to its next await:
\* the next download_file, or, the loop done, send_with_attachments; with
\* nothing downloaded the event is skipped.
ContinueDownloads(atts, i, dl, t2u, name, title, amount, email, cs) ==
    LET j == NextWithUrl(atts, i, t2u)
    IN  /\ idx' = j
        /\ IF j <= Len(atts) THEN
                /\ pc' = "await_download"
                /\ calls' = Append(cs, "downloadFile")
                /\ sent' = sent
           ELSE IF dl = <<>> THEN
                /\ pc' = "skipped"
                /\ calls' = cs
                /\ sent' = sent
           ELSE /\ pc' = "await_send"
                /\ calls' = Append(cs, "sendNotification")
                /\ sent' = [to_email |-> email,
                            subject |-> Subject(name, title),
                            body |-> Body(name, title, amount, Len(dl)),
                            attachments |-> dl]

\* approval.py:110 field.get on a control that is no dict raises
AllDicts(form_data) == \A i \in 1..Len(form_data) : form_data[i].k = "dict"

\* approval.py:87-150 get_approval_instance returned inst (its token call
\* is over, its own request was the one pending): the record is
\* read, routed, summarised, its attachments extracted and the downloads
\* started (attachment.py:170-187)
InstanceReturned(inst) ==
    /\ pc = "await_instance"
    /\ ~TokenPending
    /\ instance' = Dict(inst)
    /\ LET approval_name == Unwrap(GetDefault(inst, "approval_name", Str("")))
           text == GetDefault(inst, "form", JsonText(List(<<>>)))
           email == get_target_email(approval_name)
       IN  /\ form_json' = text
           /\ IF ~text.ok THEN
                   \* approval.py:94 json.loads raises; 78-80 log and re-raise
                   /\ pc' = "raised"
                   /\ UNCHANGED <<target_email, approval_title, approval_amount,
                                  attachments, token_to_url, idx, downloaded,
                                  calls, sent>>
                   /\ UNCHANGED tokenvars
              ELSE IF email = NoEmail THEN
                   /\ pc' = "skipped"
                   /\ target_email' = email
                   /\ UNCHANGED <<approval_title, approval_amount, attachments,
                                  token_to_url, idx, downloaded, calls, sent>>
                   /\ UNCHANGED tokenvars
              ELSE IF ~AllDicts(text.v.items) THEN
                   /\ pc' = "raised"
                   /\ target_email' = email
                   /\ UNCHANGED <<approval_title, approval_amount, attachments,
                                  token_to_url, idx, downloaded, calls, sent>>
                   /\ UNCHANGED tokenvars
              ELSE
                   LET summary == ExtractSummary(text.v.items, inst, instance_code)
                       atts == extract_attachments_from_form(text)
                   IN  /\ target_email' = email
                       /\ approval_title' = summary.title
                       /\ approval_amount' = summary.amount
                       /\ attachments' = atts
                       /\ UNCHANGED <<token_to_url, downloaded>>
                       /\ IF atts = <<>> THEN
                               /\ pc' = "skipped"
                               /\ UNCHANGED <<idx, calls, sent>>
                               /\ UNCHANGED tokenvars
                          ELSE IF FileTokens(atts) # <<>> THEN
                               /\ pc' = "await_urls"
                               /\ calls' = Append(calls, "getFileDownloadUrls")
                               /\ UNCHANGED <<idx, sent>>
                               /\ GetTokenOrPost(NextCall)
                          ELSE /\ ContinueDownloads(atts, 1, <<>>, token_to_url,
                                                    approval_name, summary.title,
                                                    summary.amount, email, calls)
                               /\ UNCHANGED tokenvars
    /\ UNCHANGED <<event, instance_code>>
    /\ responses' = Append(responses, "ok")

\* feishu_client.py:60-68 get_approval_instance raises: the token request
\* failed (28, 31-32 through _request:46), or its own request did (57,
\* 66-67, a non-success code); the error passes through approval.py:78-80,
\* which logs and re-raises
InstanceFailed ==
    /\ pc = "await_instance"
    /\ pc' = "raised"
    /\ UNCHANGED <<event, instance_code, instance, form_json, target_email,
                   approval_title, approval_amount, attachments, token_to_url,
                   idx, downloaded, calls, sent>>
    /\ responses' = Append(responses, "error")
    /\ RequestFailed

ApprovalName == Unwrap(GetDefault(instance.d, "approval_name", Str("")))

\* attachment.py:177-187 get_file_download_urls returned the mapping t2u
UrlsReturned(t2u) ==
    /\ pc = "await_urls"
    /\ ~TokenPending
    /\ token_to_url' = t2u
    /\ ContinueDownloads(attachments, 1, <<>>, t2u, ApprovalName, approval_title,
                         approval_amount, target_email, calls)
    /\ UNCHANGED <<event, instance_code, instance, form_json, target_email,
                   approval_title, approval_amount, attachments, downloaded>>
    /\ responses' = Append(responses, "ok")
    /\ UNCHANGED tokenvars

\* UrlsFailed with the error caught in download_attachments and the loop run
\* with no temporary URL
UrlsFailedIsSwallowed ==
    /\ pc = "await_urls"
    /\ ContinueDownloads(attachments, 1, <<>>, token_to_url, ApprovalName,
                         approval_title, approval_amount, target_email, calls)
    /\ UNCHANGED <<event, instance_code, instance, form_json, target_email,
                   approval_title, approval_amount, attachments, token_to_url,
                   downloaded>>
    /\ responses' = Append(responses, "error")
    /\ RequestFailed

\* feishu_client.py:70-89 get_file_download_urls raises: the token request
\* failed (28, 31-32 through _request:46), or its own request did (57,
\* 83-84, the answer's code is not 0); approval.py:78-80 logs and re-raises
UrlsFailed ==
    /\ pc = "await_urls"
    /\ pc' = "raised"
    /\ UNCHANGED <<event, instance_code, instance, form_json, target_email,
                   approval_title, approval_amount, attachments, token_to_url,
                   idx, downloaded, calls, sent>>
    /\ responses' = Append(responses, "error")
    /\ RequestFailed

\* feishu_client.py:91-96 the bytes behind a URL
Bytes(url) == "bytes of " \o url

\* attachment.py:187-189 download_file returned: the attachment gets its
\* content (the object is the one the list holds) and joins downloaded
DownloadReturned ==
    /\ pc = "await_download"
    /\ LET got == [attachments[idx] EXCEPT
                      !.content = Bytes(UrlOf(attachments[idx], token_to_url))]
           atts == [attachments EXCEPT ![idx] = got]
           dl == Append(downloaded, got)
       IN  /\ attachments' = atts
           /\ downloaded' = dl
           /\ ContinueDownloads(atts, idx + 1, dl, token_to_url, ApprovalName,
                                approval_title, approval_amount, target_email,
                                calls)
    /\ UNCHANGED <<event, instance_code, instance, form_json, target_email,
                   approval_title, approval_amount, token_to_url>>
    /\ responses' = Append(responses, "ok")
    /\ UNCHANGED tokenvars

\* DownloadFailed with the failure ending the loop instead of being caught
\* inside it
DownloadFailedAbortsLoop ==
    /\ pc = "await_download"
    /\ ContinueDownloads(attachments, Len(attachments) + 1, downloaded,
                         token_to_url, ApprovalName, approval_title,
                         approval_amount, target_email, calls)
    /\ UNCHANGED <<event, instance_code, instance, form_json, target_email,
                   approval_title, approval_amount, attachments, token_to_url,
                   downloaded>>
    /\ responses' = Append(responses, "error")
    /\ UNCHANGED tokenvars

\* attachment.py:190-191 download_file raised: logged, the loop goes on
DownloadFailed ==
    /\ pc = "await_download"
    /\ ContinueDownloads(attachments, idx + 1, downloaded, token_to_url,
                         ApprovalName, approval_title, approval_amount,
                         target_email, calls)
    /\ UNCHANGED <<event, instance_code, instance, form_json, target_email,
                   approval_title, approval_amount, attachments, token_to_url,
                   downloaded>>
    /\ responses' = Append(responses, "error")
    /\ UNCHANGED tokenvars

\* approval.py:166-172 send_with_attachments returned
SendReturned ==
    /\ pc = "await_send"
    /\ pc' = "done"
    /\ UNCHANGED <<event, instance_code, instance, form_json, target_email,
                   approval_title, approval_amount, attachments, token_to_url,
                   idx, downloaded, calls, sent>>
    /\ responses' = Append(responses, "ok")
    /\ UNCHANGED tokenvars

\* email_sender.py:61-80 aiosmtplib.send raised; approval.py:78-80 re-raises
SendFailed ==
    /\ pc = "await_send"
    /\ pc' = "raised"
    /\ UNCHANGED <<event, instance_code, instance, form_json, target_email,
                   approval_title, approval_amount, attachments, token_to_url,
                   idx, downloaded, calls, sent>>
    /\ responses' = Append(responses, "error")
    /\ UNCHANGED tokenvars

---------------------------------------------------------------------------
(* The pure computations as actions of their own *)

\* attachment.py:21-36 extract_attachments_from_form applied to form_json
WalkForm ==
    /\ pc = "walk_input"
    /\ attachments' = extract_attachments_from_form(form_json)
    /\ pc' = "walked"
    /\ UNCHANGED <<event, instance_code, instance, form_json, target_email,
                   approval_title, approval_amount, token_to_url, idx,
                   downloaded, calls, responses, sent>>
    /\ UNCHANGED tokenvars

\* approval.py:106-139 title and amount of the form of the record
Summarise ==
    /\ pc = "summary_input"
    /\ LET summary == ExtractSummary(form_json.v.items, instance.d, instance_code)
       IN  /\ approval_title' = summary.title
           /\ approval_amount' = summary.amount
    /\ pc' = "summarised"
    /\ UNCHANGED <<event, instance_code, instance, form_json, target_email,
                   attachments, token_to_url, idx, downloaded, calls, sent>>
    /\ UNCHANGED responses
    /\ UNCHANGED tokenvars

---------------------------------------------------------------------------
(* The documents and events of the model *)

MaxFormLen == 2      \* controls at the top level of a form
MaxEntries == 2      \* file entries in the value of one attachment control

\* The sequences over S of length lo..hi
SeqsOf(S, lo, hi) == UNION {[1..n -> S] : n \in lo..hi}

Control(name, type, value) ==
    Dict([name |-> Str(name), type |-> Str(type), value |-> value])
ControlExt(name, type, value, ext) ==
    Dict([name |-> Str(name), type |-> Str(type), value |-> value, ext |-> ext])
FieldList(rows) == Control("mingxi", "fieldList", List(rows))

\* -- events
EventTypes == {"", "approval_instance", "approval_instance_v2", "approval_task"}
EventDatas ==
    { [status |-> Str("APPROVED"), instance_code |-> Str("I1")],
      [status |-> Str("REJECTED"), instance_code |-> Str("I1")],
      [status |-> Str("PENDING"), instance_status |-> Str("APPROVED"),
       instance_code |-> Str("I1")],
      [instance_code |-> Str("I1")],
      [instance_status |-> Str("APPROVED"), approval_code |-> Str("A1")],
      [object |-> Dict([status |-> Str("APPROVED"), instance_code |-> Str("O1")])],
      [status |-> Str("APPROVED")],
      <<>> }
Events ==
    {Dict([event |-> Dict(d)]) : d \in EventDatas}
    \cup {Dict([header |-> EmptyDict, event |-> Dict(d)]) : d \in EventDatas}
    \cup {Dict([header |-> Dict([event_type |-> Str(t)]), event |-> Dict(d)]) :
            t \in EventTypes, d \in EventDatas}
    \cup {Dict([header |-> Dict([event_type |-> Str("approval_instance")])])}

\* -- forms of the event flow
FlowControls ==
    { Control(TitleLabel, "input", Str("Taxi")),
      ControlExt(AmountLabel, "amount", Str("100"), Dict([currency |-> Str("USD")])),
      Control("fujian", "attachmentV2", List(<<Str(UrlA)>>)),
      Control("fujian", "attachment",
              List(<<Dict([file_token |-> Str("t1"), name |-> Str("r.pdf")])>>)),
      Control("fujian", "attachment",
              List(<<Dict([name |-> Str("x.pdf")]), Dict([token |-> Str("t2")])>>)),
      FieldList(<<List(<<Control("fujian", "attachmentV2", Str(UrlB))>>)>>) }
FlowTexts ==
    {BadJson} \cup {JsonText(List(f)) : f \in SeqsOf(FlowControls, 0, MaxFormLen)}
    \cup {JsonText(List(<<Str("stray")>>))}
Instances ==
    {[approval_name |-> Str(n), form |-> t, serial_number |-> Str("SN-1")] :
        n \in {NameExpenseTest, NamePaymentTest, NameUnmapped}, t \in FlowTexts}
    \cup {[serial_number |-> Str("SN-1")],
          [approval_name |-> Str(NameExpense),
           form |-> JsonText(List(<<Control("fujian", "attachmentV2", Str(UrlA))>>))]}

\* the answers to the token requests of an event: the cached token is fresh
\* at the event's next call (expire 600) or stale at once (expire 300); the
\* clock stands at its first reading while the event is processed
FlowTokenAnswers == {[token |-> "t1", expire |-> e] : e \in {300, 600}}

\* the tokens a download-URL request names and the answers it may get: a
\* temporary URL for any part of them
TmpUrl(t) == "http://tmp/" \o t
UrlAnswers(tokens) ==
    {[t \in S |-> TmpUrl(t)] : S \in SUBSET {tokens[i] : i \in 1..Len(tokens)}}

\* -- forms of the summary
SummaryControls ==
    { Control(TitleLabel, "input", Str("Taxi")),
      Control(TitleLabel, "input", Str("Hotel")),
      Control(TitleLabel, "input", Str("")),
      Control(TitleLabel, "input", Null),
      Control(TitleLabel, "input", Num(0)),
      Control(TitleLabel, "input", Num(7)),
      Control(TitleLabel, "input", Bool(FALSE)),
      Control(TitleLabel, "input", List(<<>>)),
      Control(TitleLabel, "input", List(<<Str("a"), Num(1)>>)),
      Control(TitleLabel, "input", Dict([a |-> Num(1), b |-> List(<<Str("it's")>>)])),
      Control(TitleLabel, "input", List(<<Str("x\ny"), Dict([a |-> Bool(TRUE)])>>)),
      Dict([name |-> Str(TitleLabel), type |-> Str("input")]),
      Control(TitleLabel, "textarea", Str("Memo")),
      Control("beizhu", "input", Str("Note")),
      ControlExt(AmountLabel, "amount", Str("100"), Dict([currency |-> Str("USD")])),
      Control(AmountLabel, "amount", Str("200")),
      ControlExt(AmountLabel, "amount", Str("300"), Str("EUR")),
      Control(AmountLabel, "input", Str("9")),
      Dict([name |-> Str("mingxi"), type |-> Str("fieldList"),
            value |-> List(<<List(<<Control(TitleLabel, "input", Str("Inner")),
                                    Control(AmountLabel, "amount", Str("5"))>>)>>),
            ext |-> List(<<Dict([type |-> Str("amount"),
                                 sumItems |-> Str(SumItemsText),
                                 value |-> Str("60")])>>)]),
      ControlExt("mingxi", "fieldList", List(<<>>),
                 List(<<Dict([type |-> Str("text")]),
                        Dict([type |-> Str("amount"),
                              sumItems |-> Str(BadSumItemsText),
                              value |-> Str("60")])>>)),
      ControlExt("mingxi", "fieldList", List(<<>>),
                 List(<<Dict([type |-> Str("amount"), sumItems |-> Str("")]),
                        Dict([type |-> Str("amount"),
                              sumItems |-> Str(SumItemsOneText)])>>)),
      ControlExt("mingxi", "fieldList", List(<<>>),
                 List(<<Dict([type |-> Str("amount"),
                              sumItems |-> Str(SumItemsOneText)])>>)),
      FieldList(<<List(<<Control(TitleLabel, "input", Str("Inner")),
                         Control(AmountLabel, "amount", Str("5"))>>)>>) }
SummaryTexts == {JsonText(List(f)) : f \in SeqsOf(SummaryControls, 0, MaxFormLen)}
SummaryInstances ==
    {[approval_name |-> Str(NameExpenseTest), form |-> t] : t \in SummaryTexts}
    \cup {[approval_name |-> Str(NameExpenseTest), form |-> t,
           serial_number |-> Str("SN-1")] : t \in SummaryTexts}

\* -- forms of the walk
FileEntries ==
    { Str(UrlA), Str(UrlB), Str("ftp://x/c.pdf"), Num(3), Null, EmptyDict,
      Dict([file_token |-> Str("t1"), name |-> Str("r.pdf")]),
      Dict([token |-> Str("t2")]),
      Dict([file_token |-> Str("t1"), file_name |-> Str("")]),
      Dict([name |-> Str(""), file_name |-> Str("f.pdf"), url |-> Str(UrlA)]),
      Dict([name |-> Str("x.pdf")]),
      Dict([download_url |-> Str(UrlB), file_token |-> Str("t1"),
            mime_type |-> Str("application/pdf")]) }
AttachmentValues ==
    { Null, Str(""), Str(UrlA), Str(JunkText), Str(JsonUrlListText),
      Str(JsonTokenDictText), Str(JsonUrlStrText), Str(JsonNumText),
      Dict([file_token |-> Str("t1")]) }
    \cup {List(es) : es \in SeqsOf(FileEntries, 0, MaxEntries)}
AttachmentExts ==
    { Null, Str(""), Str("n1.pdf"), Str("n1.pdf, n2.pdf"), EmptyDict,
      Dict([name |-> Str("d.pdf")]), Dict([file_name |-> Str("e.pdf")]),
      List(<<Str("l1.pdf")>>) }
AttachmentControls ==
    {Dict([name |-> Str("fujian"), type |-> Str(t), value |-> v]) :
        t \in {"attachment", "attachmentV2"}, v \in AttachmentValues}
    \cup {Dict([name |-> Str("fujian"), type |-> Str(t), value |-> v, ext |-> e]) :
            t \in {"attachment", "attachmentV2"}, v \in AttachmentValues,
            e \in AttachmentExts}
    \cup {Dict([name |-> Str("fujian"), type |-> Str("attachment")])}

LeafControls ==
    { Control("fujian", "attachment", List(<<Str(UrlA)>>)),
      Control("fujian", "attachmentV2", List(<<Dict([file_token |-> Str("t1")])>>)),
      Control("beizhu", "input", Str(UrlB)) }
RowsOver(C) == {List(r) : r \in SeqsOf(C, 1, 2)}
NestedControls ==
    LET inner == {FieldList(<<r>>) : r \in RowsOver(LeafControls)}
        lower == LeafControls \cup inner
    IN  {FieldList(<<r>>) : r \in RowsOver(lower)}
        \cup {FieldList(<<List(<<a>>), List(<<b>>)>>) : a, b \in lower}
BasicControls ==
    LeafControls
    \cup { Control("xuanze", "select", List(<<Str(UrlB)>>)),
           Str("stray"),
           Dict([name |-> Str("wulei")]),
           FieldList(<<List(<<Control("fujian", "attachment", List(<<Str(UrlA)>>)),
                              Control("beizhu", "input", Str("Note"))>>),
                       List(<<Control("fujian", "attachmentV2", Str(UrlB))>>)>>),
           FieldList(<<Control("fujian", "attachment", List(<<Str(UrlA)>>))>>),
           Control("mingxi", "fieldList", Str(UrlA)) }
WalkTexts ==
    {BadJson}
    \cup {JsonText(List(<<c>>)) : c \in AttachmentControls \cup NestedControls}
    \cup {JsonText(List(f)) : f \in SeqsOf(BasicControls, 0, MaxFormLen)}

---------------------------------------------------------------------------
(* Specifications *)

\* an event arrives at a fresh handler
Init ==
    /\ pc = "start"
    /\ event \in Events
    /\ instance_code = ""
    /\ instance = Null
    /\ form_json = BadJson
    /\ target_email = NoEmail
    /\ approval_title = Str("")
    /\ approval_amount = Str("")
    /\ attachments = <<>>
    /\ token_to_url = <<>>
    /\ idx = 0
    /\ downloaded = <<>>
    /\ calls = <<>>
    /\ responses = <<>>
    /\ sent = NotSent
    /\ ClientConstructed

Next ==
    \/ HandleEvent
    \/ \E inst \in Instances : InstanceReturned(inst)
    \/ InstanceFailed
    \/ \E t2u \in UrlAnswers(FileTokens(attachments)) : UrlsReturned(t2u)
    \/ UrlsFailed
    \/ DownloadReturned
    \/ DownloadFailed
    \/ SendReturned
    \/ SendFailed
    \/ \E r \in Requests, answer \in FlowTokenAnswers :
            RefreshSucceeded(r, answer.token, answer.expire)

Spec == Init /\ [][Next]_vars

\* the walk of a form text
InitWalk ==
    /\ pc = "walk_input"
    /\ event = Null
    /\ instance_code = ""
    /\ instance = Null
    /\ form_json \in WalkTexts
    /\ target_email = NoEmail
    /\ approval_title = Str("")
    /\ approval_amount = Str("")
    /\ attachments = <<>>
    /\ token_to_url = <<>>
    /\ idx = 0
    /\ downloaded = <<>>
    /\ calls = <<>>
    /\ responses = <<>>
    /\ sent = NotSent
    /\ ClientConstructed

NextWalk == WalkForm

SpecWalk == InitWalk /\ [][NextWalk]_vars

\* the summary of the form of a record: _process_approval at approval.py:105,
\* the record fetched (with the token of a first token answer) and routed
InitSummary ==
    /\ pc = "summary_input"
    /\ event = Null
    /\ instance_code = "I1"
    /\ \E inst \in SummaryInstances :
            /\ instance = Dict(inst)
            /\ form_json = inst.form
            /\ target_email = get_target_email(Unwrap(inst.approval_name))
    /\ approval_title = Str("")
    /\ approval_amount = Str("")
    /\ attachments = <<>>
    /\ token_to_url = <<>>
    /\ idx = 0
    /\ downloaded = <<>>
    /\ calls = <<"getApprovalInstance">>
    /\ responses = <<"ok">>
    /\ sent = NotSent
    /\ now = 1
    /\ posts = 1
    /\ \E answer \in FlowTokenAnswers :
            /\ access_token = answer.token
            /\ token_expires_at = now + answer.expire - ExpireEarly
            /\ refreshes = {[token |-> access_token,
                             expires_at |-> token_expires_at]}
            /\ req = [r \in Requests |->
                        IF r = 1 THEN [pc |-> "returned", token |-> answer.token]
                        ELSE NotStarted]

NextSummary == Summarise

SpecSummary == InitSummary /\ [][NextSummary]_vars

\* concurrent requests on the token cache of one client
InitToken ==
    /\ pc = "token_cache"
    /\ event = Null
    /\ instance_code = ""
    /\ instance = Null
    /\ form_json = BadJson
    /\ target_email = NoEmail
    /\ approval_title = Str("")
    /\ approval_amount = Str("")
    /\ attachments = <<>>
    /\ token_to_url = <<>>
    /\ idx = 0
    /\ downloaded = <<>>
    /\ calls = <<>>
    /\ responses = <<>>
    /\ sent = NotSent
    /\ ClientConstructed

NextToken ==
    \/ \E r \in Requests : EnterGetToken(r)
    \/ \E r \in Requests, token \in Tokens, expire \in Expires :
            RefreshSucceeded(r, token, expire)
    \/ \E r \in Requests : RefreshHttpError(r)
    \/ \E r \in Requests : RefreshRejected(r)
    \/ \E r \in Requests, token \in Tokens : RefreshBadExpire(r, token)
    \/ Tick

SpecToken == InitToken /\ [][NextToken]_vars

---------------------------------------------------------------------------
(* Properties.  The definitions of this part restate what the claims say,  *)
(* from the documents themselves, not from the operators above.            *)

Called(op) == \E i \in 1..Len(calls) : calls[i] = op

\* the controls of a form in document order, those in the rows of grouping
\* controls included (each grouping control comes before its rows)
RECURSIVE FlattenControls(_)
RECURSIVE FlattenRows(_)
FlattenControls(controls) ==
    IF controls = <<>> THEN <<>>
    ELSE LET c == Head(controls)
             nested == IF /\ c.k = "dict"
                          /\ Get(c.d, "type") = Str("fieldList")
                          /\ Get(c.d, "value").k = "list"
                       THEN FlattenRows(c.d.value.items) ELSE <<>>
         IN  <<c>> \o nested \o FlattenControls(Tail(controls))
FlattenRows(rows) ==
    IF rows = <<>> THEN <<>>
    ELSE (IF Head(rows).k = "list" THEN FlattenControls(Head(rows).items) ELSE <<>>)
            \o FlattenRows(Tail(rows))

TopControls == form_json.v.items

\* C1: processing starts (get_approval_instance is called) only for an event
\* whose header event type contains the approval-instance marker and whose
\* status is APPROVED; for every other event no collaborator is called and
\* no error is raised.
C1_OnlyMarkedApprovedEvents ==
    LET header == GetDefault(event.d, "header", EmptyDict)
        marked == /\ "event_type" \in DOMAIN header.d
                  /\ header.d.event_type.s \in {"approval_instance",
                                                "approval_instance_v2"}
        approved == EventStatus(event.d) = Str("APPROVED")
    IN  /\ calls # <<>> => marked /\ approved
        /\ ~(marked /\ approved) => calls = <<>> /\ pc # "raised"

\* C2: once get_approval_instance has returned a record whose approval name
\* has no destination (not in the map, or mapped to an empty address), no
\* further collaborator is called and the event ends as a skip, without error.
C2_UnroutedEventIsSkipped ==
    (instance # Null /\ get_target_email(ApprovalName) = NoEmail)
        => (calls = <<"getApprovalInstance">> /\ pc = "skipped")

\* C3: send_with_attachments is never called with an empty attachment list;
\* with no attachment found or none downloaded it is not called at all; and
\* every attachment handed to it has its content.
C3_NeverSendsEmpty ==
    /\ Called("sendNotification") =>
            /\ sent.attachments # <<>>
            /\ \A i \in 1..Len(sent.attachments) :
                    sent.attachments[i].content # NoContent
    /\ (attachments = <<>> \/ downloaded = <<>>) => ~Called("sendNotification")
    /\ ~Called("sendNotification") => sent = NotSent

C3_Witness ==
    /\ pc = "done"
    /\ Len(sent.attachments) >= 1
    /\ Len(sent.attachments) < Len(attachments)
    /\ \E i \in 1..Len(attachments) :
            /\ UrlOf(attachments[i], token_to_url) # ""
            /\ attachments[i].content = NoContent

\* C4: a form text that is not valid JSON does not make the processing of
\* the event raise: the event ends as an ordinary skip, nothing is sent.
C4_MalformedFormIsSkipped ==
    (instance # Null /\ ~form_json.ok)
        => (pc = "skipped" /\ ~Called("sendNotification"))

IsTitleControl(c) ==
    c.k = "dict" /\ Get(c.d, "name") = Str(TitleLabel) /\ Get(c.d, "type") = Str("input")
ValueOf(c) == GetDefault(c.d, "value", Str(""))
TitleFallback == GetDefault(instance.d, "serial_number", Str(instance_code))

\* C5 as claimed: the title is the value of the first title control of the
\* flattened form, nested controls included; the fallback is used only when
\* there is no such control.
C5_FirstTitleOfFlattenedForm ==
    pc = "summarised" =>
        LET m == SelectSeq(FlattenControls(TopControls), IsTitleControl)
        IN  approval_title = IF m # <<>> THEN ValueOf(m[1]) ELSE TitleFallback

\* C5 amended: the title is the value of the last title control at the top
\* level of the form; the fallback (serial number, else instance code) is
\* used exactly when there is none or its value is not truthy: missing, an
\* empty string, null, 0, false, an empty list or an empty object.
C5_LastTopLevelTitle ==
    pc = "summarised" =>
        LET m == SelectSeq(TopControls, IsTitleControl)
        IN  approval_title = IF m # <<>> /\ Truthy(ValueOf(m[Len(m)]))
                             THEN ValueOf(m[Len(m)]) ELSE TitleFallback

C5_Witness ==
    /\ pc = "summarised"
    /\ LET m == SelectSeq(TopControls, IsTitleControl)
       IN  /\ Len(m) >= 2
           /\ Truthy(ValueOf(m[1]))
           /\ Truthy(ValueOf(m[Len(m)]))
           /\ ValueOf(m[1]) # ValueOf(m[Len(m)])
           /\ approval_title = ValueOf(m[Len(m)])

IsAmountControl(c) ==
    c.k = "dict" /\ Get(c.d, "name") = Str(AmountLabel) /\ Get(c.d, "type") = Str("amount")
\* "<value> <currency>", the currency from the control's ext, default SEK
AmountText(c) ==
    LET ext == Get(c.d, "ext")
        cur == IF ext.k = "dict" /\ "currency" \in DOMAIN ext.d
               THEN Fmt(ext.d.currency) ELSE "SEK"
    IN  Fmt(GetDefault(c.d, "value", Str(""))) \o " " \o cur
\* the summary of a grouping control ("" when it has none)
GroupSummary(c) ==
    IF c.k = "dict" /\ Get(c.d, "type") = Str("fieldList") /\ Get(c.d, "ext").k = "list"
    THEN SummaryAmount(c.d.ext.items, Str("")) ELSE Str("")
HasSummary(c) == Truthy(GroupSummary(c))

\* C6 as claimed: with an amount control anywhere in the flattened form, the
\* amount is that of the first one.
C6_FirstAmountOfFlattenedForm ==
    pc = "summarised" =>
        LET m == SelectSeq(FlattenControls(TopControls), IsAmountControl)
        IN  m # <<>> => approval_amount = Str(AmountText(m[1]))

\* C6 amended: with an amount control at the top level of the form, the
\* amount is that of the last one, whatever grouping controls come before or
\* after it; the summary of a grouping control (the first top-level one that
\* has a summary) is the amount only when the top level has no amount control.
C6_LastTopLevelAmount ==
    pc = "summarised" =>
        LET m == SelectSeq(TopControls, IsAmountControl)
            g == SelectSeq(TopControls, HasSummary)
        IN  approval_amount = IF m # <<>> THEN Str(AmountText(m[Len(m)]))
                              ELSE IF g # <<>> THEN GroupSummary(g[1])
                              ELSE Str("")

C6_Witness ==
    /\ pc = "summarised"
    /\ \E i, j \in 1..Len(TopControls) :
            /\ i < j
            /\ HasSummary(TopControls[i])
            /\ IsAmountControl(TopControls[j])
            /\ approval_amount = Str(AmountText(TopControls[j]))
            /\ approval_amount # GroupSummary(TopControls[i])

IsAttachmentControl(c) ==
    c.k = "dict" /\ Get(c.d, "type") \in {Str("attachment"), Str("attachmentV2")}

\* the file entries of an attachment control: its value, decoded when it is
\* JSON text, a lone entry taken as a list of one
EntriesOf(c) ==
    LET value == Get(c.d, "value")
        v == IF value.k = "str" /\ JsonLoads(value.s).ok
             THEN JsonLoads(value.s).v ELSE value
    IN  IF v.k = "list" THEN v.items ELSE <<v>>
\* an entry that yields a descriptor: a URL string or a structured entry
IsFileEntry(e) == (e.k = "str" /\ StartsWithHttp(e.s)) \/ e.k = "dict"
\* an entry with no name of its own
NoOwnName(e) ==
    e.k = "str" \/ (~Truthy(Get(e.d, "name")) /\ ~Truthy(Get(e.d, "file_name")))

\* C7: a descriptor made from the entry at zero-based position i of an
\* attachment control, the entry having no name of its own and ext none for
\* it, is named attachment_{i+1}.  Stated on the forms of one attachment
\* control all of whose entries yield a descriptor, so that the i-th
\* descriptor is the one of the i-th entry.
C7_FallbackName ==
    (/\ pc = "walked"
     /\ form_json.ok
     /\ Len(TopControls) = 1
     /\ IsAttachmentControl(TopControls[1])
     /\ \A i \in 1..Len(EntriesOf(TopControls[1])) :
            IsFileEntry(EntriesOf(TopControls[1])[i])
     /\ Len(attachments) = Len(EntriesOf(TopControls[1])))
    => LET c == TopControls[1]
           es == EntriesOf(c)
       IN  \A i \in 1..Len(es) :
               (NoOwnName(es[i]) /\ i > Len(ExtFilenames(Get(c.d, "ext"))))
                   => attachments[i].name = "attachment_" \o ToString(i)

\* C8: every descriptor the walk makes has a file token or a download URL,
\* and no content yet.
C8_DescriptorRefersToFile ==
    pc = "walked" =>
        \A i \in 1..Len(attachments) :
            /\ attachments[i].file_token # "" \/ attachments[i].download_url # ""
            /\ attachments[i].content = NoContent

\* C9: no two descriptors of the list the walk returns refer to the same
\* file (the same non-empty token, or the same URL).
C9_NoDuplicates ==
    pc = "walked" =>
        \A i, j \in 1..Len(attachments) :
            i < j =>
                /\ ~(attachments[i].file_token # ""
                        /\ attachments[i].file_token = attachments[j].file_token)
                /\ ~(attachments[i].download_url # ""
                        /\ attachments[i].download_url = attachments[j].download_url)

\* a well-formed document: every control a dict, every grouping control's
\* value a list of rows, every row a list of well-formed controls
RECURSIVE WellFormed(_)
WellFormed(controls) ==
    \A i \in 1..Len(controls) :
        LET c == controls[i]
        IN  /\ c.k = "dict"
            /\ Get(c.d, "type") = Str("fieldList") =>
                    /\ Get(c.d, "value").k = "list"
                    /\ \A r \in 1..Len(c.d.value.items) :
                            /\ c.d.value.items[r].k = "list"
                            /\ WellFormed(c.d.value.items[r].items)

RECURSIVE ConcatResolved(_)
ConcatResolved(controls) ==
    IF controls = <<>> THEN <<>>
    ELSE ResolveAttachmentControl(Head(controls).d) \o ConcatResolved(Tail(controls))

\* C10: for a well-formed document the walk's output is the concatenation,
\* in depth-first document order, of what each control of type attachment or
\* attachmentV2 yields, at every depth of grouping-control rows, and of
\* nothing else.
C10_WalkResolvesEveryAttachmentControl ==
    (pc = "walked" /\ form_json.ok /\ WellFormed(TopControls)) =>
        attachments =
            ConcatResolved(SelectSeq(FlattenControls(TopControls), IsAttachmentControl))

C10_Witness ==
    /\ pc = "walked"
    /\ form_json.ok
    /\ WellFormed(TopControls)
    /\ Len(attachments) >= 3
    /\ attachments[1].download_url # attachments[2].download_url
    /\ \E i \in 1..Len(TopControls) :
            /\ Get(TopControls[i].d, "type") = Str("fieldList")
            /\ \E r \in 1..Len(TopControls[i].d.value.items) :
                    \E n \in 1..Len(TopControls[i].d.value.items[r].items) :
                        LET inner == TopControls[i].d.value.items[r].items[n]
                        IN  /\ Get(inner.d, "type") = Str("fieldList")
                            /\ SelectSeq(FlattenControls(<<inner>>),
                                         IsAttachmentControl) # <<>>

---------------------------------------------------------------------------
(* C11: one attachment's failure does not stop the others *)

\* the positions in calls of the calls of op, in order
CallPositions(op) ==
    SelectSeq([i \in 1..Len(calls) |-> i], LAMBDA i : calls[i] = op)

\* the positions of the attachments a URL is known for, in order
UrlPositions ==
    SelectSeq([i \in 1..Len(attachments) |-> i],
              LAMBDA i : UrlOf(attachments[i], token_to_url) # "")

\* download_attachments has gone through the whole of a non-empty list
LoopOver == attachments # <<>> /\ idx = Len(attachments) + 1

\* the attachments whose download_file call answered, in list order: the
\* k-th download_file call is the one for the k-th attachment with a URL
SucceededDownloads ==
    LET dcalls == CallPositions("downloadFile")
        ups == UrlPositions
        oks == SelectSeq([k \in 1..Len(ups) |-> k],
                         LAMBDA k : k <= Len(dcalls)
                                    /\ dcalls[k] <= Len(responses)
                                    /\ responses[dcalls[k]] = "ok")
    IN  [k \in 1..Len(oks) |-> attachments[ups[oks[k]]]]

\* C11: once download_attachments has gone through the list, download_file
\* has been called once for every attachment that has a URL, whatever the
\* other downloads did; the batch is exactly the attachments whose download
\* succeeded, in the order of the list, each with its content; and the
\* event is skipped exactly when that batch is empty, else the mail is sent
\* with the batch.
C11_FailureIsIsolated ==
    LoopOver =>
        /\ Len(CallPositions("downloadFile")) = Len(UrlPositions)
        /\ downloaded = SucceededDownloads
        /\ \A k \in 1..Len(downloaded) : downloaded[k].content # NoContent
        /\ (pc = "skipped") <=> (downloaded = <<>>)
        /\ downloaded # <<>> =>
                Called("sendNotification") /\ sent.attachments = downloaded

\* a download failed, a later one succeeded and an attachment had no URL to
\* be tried with
C11_Witness ==
    /\ LoopOver
    /\ \E i, j \in 1..Len(responses) :
            /\ i < j
            /\ calls[i] = "downloadFile" /\ responses[i] = "error"
            /\ calls[j] = "downloadFile" /\ responses[j] = "ok"
    /\ Len(UrlPositions) < Len(attachments)
    /\ pc = "done"

---------------------------------------------------------------------------
(* C12: a failed remote call ends the processing of the event *)

RemoteApiCalls == {"getApprovalInstance", "getFileDownloadUrls"}

\* C12: whenever a getApprovalInstance or getFileDownloadUrls call has
\* ended in an error, the handler has raised, the failed call is the last
\* collaborator call of the event (no downloadFile, no sendNotification,
\* nothing else comes after it) and it was made once only.
C12_RemoteFailureEndsEvent ==
    \A i \in 1..Len(responses) :
        (calls[i] \in RemoteApiCalls /\ responses[i] = "error") =>
            /\ pc = "raised"
            /\ Len(calls) = i
            /\ Len(CallPositions(calls[i])) = 1
            /\ ~Called("downloadFile") /\ ~Called("sendNotification")
            /\ sent = NotSent

\* getFileDownloadUrls failed for a form that also has an attachment with a
\* URL of its own, which download_file could have been called for
C12_Witness ==
    /\ calls = <<"getApprovalInstance", "getFileDownloadUrls">>
    /\ responses = <<"ok", "error">>
    /\ pc = "raised"
    /\ \E i \in 1..Len(attachments) : attachments[i].download_url # ""

---------------------------------------------------------------------------
(* C13: the token cache under concurrent requests *)

\* the cache is empty, or token and expiry are those of one successful answer
CachePairIsOneResponse ==
    \/ access_token = NoToken /\ token_expires_at = 0
    \/ [token |-> access_token, expires_at |-> token_expires_at] \in refreshes

\* a request holds a token exactly when it has returned, and the token is
\* one a successful answer gave
ReturnedTokensWereIssued ==
    \A r \in Requests :
        IF req[r].pc = "returned"
        THEN \E rf \in refreshes : rf.token = req[r].token
        ELSE req[r].token = NoToken

\* a step in which a request's refresh fails leaves token and expiry alone
FailedRefreshKeepsCache ==
    \A r \in Requests :
        (req[r].pc = "awaiting_post" /\ req'[r].pc = "raised") =>
            UNCHANGED <<access_token, token_expires_at, refreshes>>

\* a request returns without a token request of its own only with the
\* cached token and before the cached expiry; otherwise it posts one
ServedFromCacheOnlyWhenFresh ==
    \A r \in Requests :
        /\ (req[r].pc = "idle" /\ req'[r].pc = "returned") =>
                /\ now < token_expires_at
                /\ req'[r].token = access_token
                /\ posts' = posts
        /\ (req[r].pc = "idle" /\ req'[r].pc = "awaiting_post") =>
                /\ ~(access_token # NoToken /\ now < token_expires_at)
                /\ posts' = posts + 1
        /\ req[r].pc = "idle" => req'[r].pc \in {"idle", "returned", "awaiting_post"}

\* a request whose refresh succeeds returns the token of its own answer,
\* which is the cached one at that moment
RefreshReturnsOwnToken ==
    \A r \in Requests :
        (req[r].pc = "awaiting_post" /\ req'[r].pc = "returned") =>
            /\ req'[r].token = access_token'
            /\ [token |-> access_token', expires_at |-> token_expires_at']
                    \in refreshes'

\* C13 as claimed: with the requests of one client interleaved in every
\* order, in every state the cached token and expiry are both unset or both
\* those of one successful refresh answer; a failed refresh changes neither;
\* a request is served from the cache, with no token request of its own,
\* only while the time is before the cached expiry, and posts one otherwise
\* (so expired requests may refresh twice over); and every request ends with
\* a token a successful refresh issued.  The claim speaks of failed refreshes
\* itself, so its last part is stated of the requests that return a token
\* (a request whose own refresh fails returns none): they return one that a
\* successful refresh issued, their own when they refreshed.
C13_NoCorruptionUnderRaces ==
    /\ [](CachePairIsOneResponse /\ ReturnedTokensWereIssued)
    /\ [][/\ FailedRefreshKeepsCache
          /\ ServedFromCacheOnlyWhenFresh
          /\ RefreshReturnsOwnToken]_vars

=============================================================================
